---------------------------- MODULE Spec2Model ----------------------------
(***************************************************************************)
(* menu_sam/invert_colors.py: the ordered list of regular-expression       *)
(* substitutions of invert_colors, applied one rule after the other to the *)
(* text of one file, and the command-line driver that reads the file,      *)
(* transforms it in memory, overwrites it and prints a confirmation.       *)
(*                                                                         *)
(* Texts are TLA+ strings (sequences of characters); a rule is matched     *)
(* character by character, so that a match may begin or end inside a word. *)
(***************************************************************************)
EXTENDS Naturals, Sequences, FiniteSets, TLC

VARIABLES
    argv,          \* sys.argv[1:], the command-line arguments
    file,          \* the text stored at file_path
    pc,            \* the driver's position
    main_content,  \* __main__'s content: the text read from the file
    content,       \* invert_colors' content: the text being rewritten
    i,             \* the index of the next rule of replacements
    inverted,      \* __main__'s inverted: the value invert_colors returned
    stdout,        \* the lines printed
    fault,         \* the uncaught exception that ended the run, or "none"
    run,           \* which invocation of the script this is
    file0          \* the text of the file before the first invocation

vars == <<argv, file, pc, main_content, content, i, inverted, stdout, fault,
          run, file0>>

---------------------------------------------------------------------------
(* Bounds of the model.                                                    *)

\* The longest generated document, in pieces of Pieces.
MaxPieces == 3
\* The longest generated document of the specification with re-runs.
RerunPieces == 2
\* How many times the script is run on the same file (SpecRerun).
MaxRuns == 2

---------------------------------------------------------------------------
(* Characters and strings.                                                 *)

\* \d of the re module, restricted to the ASCII digits.
Digits == {"0", "1", "2", "3", "4", "5", "6", "7", "8", "9"}

\* The k-th character of s, as a string of length one.
Char(s, k) == SubSeq(s, k, k)

\* s[k:] starts with the literal lit.
StartsAt(s, k, lit) ==
    /\ k + Len(lit) - 1 <= Len(s)
    /\ SubSeq(s, k, k + Len(lit) - 1) = lit

\* The index of the last character of the longest run of digits that starts
\* at k (k - 1 when s[k] is no digit): \d+ is greedy and nothing follows it.
RECURSIVE DigitsEnd(_, _)
DigitsEnd(s, k) ==
    IF k <= Len(s) /\ Char(s, k) \in Digits THEN DigitsEnd(s, k + 1) ELSE k - 1

\* sub is a substring of s.
Contains(s, sub) == \E k \in 1..Len(s) : StartsAt(s, k, sub)

---------------------------------------------------------------------------
(* The rule list.  A pattern is a literal followed by nothing ("none"), by *)
(* the negative lookahead (?!/) ("not_slash") or by the captured group     *)
(* (\d+) ("digits"); a replacement template is a literal, followed by \1   *)
(* when ref is TRUE.                                                       *)

Rule(lit, tail, out, ref) ==
    [lit |-> lit, tail |-> tail, out |-> out, ref |-> ref]

\* First pass: protect certain patterns
ProtectBgBlack == Rule("bg-black", "not_slash", "BG_BLACK_TEMP", FALSE)
ProtectTextWhite == Rule("text-white", "not_slash", "TEXT_WHITE_TEMP", FALSE)
BorderWhite == Rule("border-white", "none", "border-black", FALSE)
HoverBgWhite == Rule("hover:bg-white", "none", "hover:bg-black", FALSE)
HoverTextWhite == Rule("hover:text-white", "none", "hover:text-black", FALSE)
\* Second pass: opacity colors
RestoreBgOpacity == Rule("BG_BLACK_TEMP/", "digits", "bg-white/", TRUE)
RestoreBg == Rule("BG_BLACK_TEMP", "not_slash", "bg-white", FALSE)
RestoreTextOpacity == Rule("TEXT_WHITE_TEMP/", "digits", "text-black/", TRUE)
RestoreText == Rule("TEXT_WHITE_TEMP", "not_slash", "text-black", FALSE)
\* Handle bg-white/X -> bg-black/X inversions
InvertBgWhiteOpacity == Rule("bg-white/", "digits", "bg-black/", TRUE)
\* Sam red text color
SamRedText ==
    Rule("bg-sam-red text-white", "none", "bg-sam-red text-black", FALSE)
TextHoverText ==
    Rule("text-white hover:text-white", "none", "text-black hover:text-black",
         FALSE)

\* Faulty variant: 'border-white' is replaced by itself (a typo in the template).
replacementsBorderTypo ==
    << ProtectBgBlack, ProtectTextWhite,
       Rule("border-white", "none", "border-white", FALSE),
       HoverBgWhite, HoverTextWhite, RestoreBgOpacity, RestoreBg,
       RestoreTextOpacity, RestoreText, InvertBgWhiteOpacity, SamRedText,
       TextHoverText >>

\* Faulty variant: the direct opacity rule forgets \1 in its template.
replacementsNoBackref ==
    << ProtectBgBlack, ProtectTextWhite, BorderWhite, HoverBgWhite,
       HoverTextWhite, RestoreBgOpacity, RestoreBg, RestoreTextOpacity,
       RestoreText, Rule("bg-white/", "digits", "bg-black/", FALSE),
       SamRedText, TextHoverText >>

\* Faulty variant: the direct opacity rule and the restoration of BG_BLACK_TEMP/N
\* change places, so the direct rule runs before the restoration is over.
replacementsDirectEarly ==
    << ProtectBgBlack, ProtectTextWhite, BorderWhite, HoverBgWhite,
       HoverTextWhite, InvertBgWhiteOpacity, RestoreBg, RestoreTextOpacity,
       RestoreText, RestoreBgOpacity, SamRedText, TextHoverText >>

\* Faulty variant: bg-black is protected whether or not a '/' follows.
replacementsBgNoLookahead ==
    << Rule("bg-black", "none", "BG_BLACK_TEMP", FALSE), ProtectTextWhite,
       BorderWhite, HoverBgWhite, HoverTextWhite, RestoreBgOpacity, RestoreBg,
       RestoreTextOpacity, RestoreText, InvertBgWhiteOpacity, SamRedText,
       TextHoverText >>

\* Faulty variant: the two compound rules come first ("do compound patterns first")
\* and the protection of text-white comes third.
replacementsCompoundFirst ==
    << SamRedText, TextHoverText, ProtectTextWhite, ProtectBgBlack,
       BorderWhite, HoverBgWhite, HoverTextWhite, RestoreBgOpacity, RestoreBg,
       RestoreTextOpacity, RestoreText, InvertBgWhiteOpacity >>

\* Faulty variant: text-white is protected whether or not a '/' follows.
replacementsTextNoLookahead ==
    << ProtectBgBlack, Rule("text-white", "none", "TEXT_WHITE_TEMP", FALSE),
       BorderWhite, HoverBgWhite, HoverTextWhite, RestoreBgOpacity, RestoreBg,
       RestoreTextOpacity, RestoreText, InvertBgWhiteOpacity, SamRedText,
       TextHoverText >>

replacements ==
    << ProtectBgBlack, ProtectTextWhite, BorderWhite, HoverBgWhite,
       HoverTextWhite, RestoreBgOpacity, RestoreBg, RestoreTextOpacity,
       RestoreText, InvertBgWhiteOpacity, SamRedText, TextHoverText >>

NumRules == Len(replacements)

---------------------------------------------------------------------------
(* re.sub(pattern, replacement, content).                                  *)

\* The index of the last character of the match of r's pattern that begins
\* at k, or 0 when the pattern does not match there.
MatchEnd(r, s, k) ==
    IF ~StartsAt(s, k, r.lit) THEN 0
    ELSE LET e == k + Len(r.lit) - 1 IN
         CASE r.tail = "none" -> e
           [] r.tail = "not_slash" ->
                IF e < Len(s) /\ Char(s, e + 1) = "/" THEN 0 ELSE e
           [] r.tail = "digits" ->
                LET d == DigitsEnd(s, e + 1) IN IF d > e THEN d ELSE 0

\* The replacement template of r expanded for the match s[k..e].
Expand(r, s, k, e) ==
    IF r.ref THEN r.out \o SubSeq(s, k + Len(r.lit), e) ELSE r.out

\* The leftmost non-overlapping matches from k on, each replaced.
RECURSIVE SubFrom(_, _, _)
SubFrom(r, s, k) ==
    IF k > Len(s) THEN ""
    ELSE LET e == MatchEnd(r, s, k) IN
         IF e > 0 THEN Expand(r, s, k, e) \o SubFrom(r, s, e + 1)
         ELSE Char(s, k) \o SubFrom(r, s, k + 1)

Sub(r, s) == SubFrom(r, s, 1)

\* The pattern of r matches somewhere in s.
Matches(r, s) == \E k \in 1..Len(s) : MatchEnd(r, s, k) > 0

\* Faulty variant: the result of re.sub is not bound to content again.
ApplyRulesDiscard(s, from, to) == s

\* The text after the rules from..to have been applied to s, in order.
RECURSIVE ApplyRules(_, _, _)
ApplyRules(s, from, to) ==
    IF from > to THEN s
    ELSE LET t == Sub(replacements[from], s) IN ApplyRules(t, from + 1, to)

invert_colors(s) == ApplyRules(s, 1, NumRules)

---------------------------------------------------------------------------
(* The documents the file may hold.                                        *)

\* The pieces generated documents are made of: the tokens of the patterns,
\* the two placeholders, a separator, '/', a digit, and two fragments that
\* overlap text-white.
Pieces ==
    { "bg-black", "bg-white", "text-white", "border-white", "hover:",
      " ", "/", "4", "BG_BLACK_TEMP", "TEXT_WHITE_TEMP",
      "xt-white", "text-whi" }

\* Longer documents: class lists as they occur in markup, and one text in
\* which restored tokens spell the idiom of the last rule.
Examples ==
    { "class=\"bg-black text-white border-white\"",
      "bg-sam-red text-white",
      "text-white hover:text-white",
      "bg-sam-red text-white/40",
      "hover:bg-white/40 bg-white/5",
      "bg-black/40 hover:bg-black",
      "md:text-white/75 hover:text-white/90",
      "bg-blackxt-white hover:text-whiTEXT_WHITE_TEMP" }

RECURSIVE Concat(_)
Concat(n) ==
    IF n = 0 THEN {""}
    ELSE LET shorter == Concat(n - 1)
         IN  shorter \cup {d \o p : d \in shorter, p \in Pieces}

Docs == Concat(MaxPieces) \cup Examples

RerunDocs == Concat(RerunPieces) \cup Examples

FilePath == "menu.tsx"

---------------------------------------------------------------------------
(* The driver.                                                             *)

Start(docs) ==
    /\ argv \in {<<>>, <<FilePath>>}
    /\ file \in docs
    /\ file0 = file
    /\ pc = "argv"
    /\ main_content = ""
    /\ content = ""
    /\ i = 1
    /\ inverted = ""
    /\ stdout = <<>>
    /\ fault = "none"
    /\ run = 1

Init == Start(Docs)

Raise(exc) ==
    /\ pc' = "fault"
    /\ fault' = exc

\* file_path = sys.argv[1]
GetArg ==
    /\ pc = "argv"
    /\ IF Len(argv) = 0
         THEN Raise("IndexError")
         ELSE pc' = "read" /\ UNCHANGED fault
    /\ UNCHANGED <<argv, file, main_content, content, i, inverted, stdout,
                   run, file0>>

\* with open(file_path, 'r') as f: content = f.read(), and the call of
\* invert_colors(content); open or read may raise.
ReadFile ==
    /\ pc = "read"
    /\ \/ /\ main_content' = file
          /\ content' = file
          /\ i' = 1
          /\ pc' = "sub"
          /\ UNCHANGED fault
       \/ /\ \E exc \in {"FileNotFoundError", "PermissionError",
                         "UnicodeDecodeError"} : Raise(exc)
          /\ UNCHANGED <<main_content, content, i>>
    /\ UNCHANGED <<argv, file, inverted, stdout, run, file0>>

\* One iteration of the loop: content = re.sub(pattern, replacement, content)
Substitute ==
    /\ pc = "sub"
    /\ i <= NumRules
    /\ content' = Sub(replacements[i], content)
    /\ i' = i + 1
    /\ UNCHANGED <<argv, file, pc, main_content, inverted, stdout, fault,
                   run, file0>>

\* return content; inverted = invert_colors(content)
Return ==
    /\ pc = "sub"
    /\ i > NumRules
    /\ inverted' = content
    /\ pc' = "open_w"
    /\ UNCHANGED <<argv, file, main_content, content, i, stdout, fault,
                   run, file0>>

\* open(file_path, 'w'): truncates the file, or raises and leaves it alone.
OpenWrite ==
    /\ pc = "open_w"
    /\ \/ /\ file' = ""
          /\ pc' = "write"
          /\ UNCHANGED fault
       \/ /\ Raise("PermissionError")
          /\ UNCHANGED file
    /\ UNCHANGED <<argv, main_content, content, i, inverted, stdout, run,
                   file0>>

\* Faulty variant: f.write(content), the text as it was read.
WriteFileUntransformed ==
    /\ pc = "write"
    /\ \/ /\ file' = main_content
          /\ pc' = "print"
          /\ UNCHANGED fault
       \/ /\ \E n \in 0..(Len(main_content) - 1) :
                 file' = SubSeq(main_content, 1, n)
          /\ Raise("OSError")
    /\ UNCHANGED <<argv, main_content, content, i, inverted, stdout, run,
                   file0>>

\* f.write(inverted) and the close of the with block; a failure leaves a
\* proper prefix of the text in the file.
WriteFile ==
    /\ pc = "write"
    /\ \/ /\ file' = inverted
          /\ pc' = "print"
          /\ UNCHANGED fault
       \/ /\ \E n \in 0..(Len(inverted) - 1) : file' = SubSeq(inverted, 1, n)
          /\ Raise("OSError")
    /\ UNCHANGED <<argv, main_content, content, i, inverted, stdout, run,
                   file0>>

\* print(f"<check mark> Inverted colors in {file_path}"): the line is
\* modelled without its leading check mark and space.
PrintDone ==
    /\ pc = "print"
    /\ stdout' = Append(stdout, "Inverted colors in " \o argv[1])
    /\ pc' = "exit"
    /\ UNCHANGED <<argv, file, main_content, content, i, inverted, fault,
                   run, file0>>

Next ==
    \/ GetArg
    \/ ReadFile
    \/ Substitute
    \/ Return
    \/ OpenWrite
    \/ WriteFile
    \/ PrintDone

Spec == Init /\ [][Next]_vars

\* The script is started again on the file it has just rewritten.
Rerun ==
    /\ pc = "exit"
    /\ run < MaxRuns
    /\ run' = run + 1
    /\ pc' = "argv"
    /\ main_content' = ""
    /\ content' = ""
    /\ i' = 1
    /\ inverted' = ""
    /\ UNCHANGED <<argv, file, stdout, fault, file0>>

InitRerun == Start(RerunDocs)

NextRerun == Next \/ Rerun

SpecRerun == InitRerun /\ [][NextRerun]_vars

---------------------------------------------------------------------------
(* Vocabulary of the properties.                                           *)

\* invert_colors has just returned: inverted is its result for main_content.
Returned == pc = "open_w"

\* The number of rules already applied to content.
Applied == i - 1

Before(s, k) == SubSeq(s, 1, k - 1)
After(s, e) == SubSeq(s, e + 1, Len(s))

EndsWith(s, suf) ==
    /\ Len(suf) <= Len(s)
    /\ SubSeq(s, Len(s) - Len(suf) + 1, Len(s)) = suf

\* The literal lit (which ends with '/') followed by at least one digit
\* begins at k: a token with a numeric opacity suffix.
OpacityTokenAt(s, k, lit) ==
    /\ StartsAt(s, k, lit)
    /\ DigitsEnd(s, k + Len(lit)) >= k + Len(lit)

\* The digits of the opacity token lit<digits> that begins at k.
OpacityOf(s, k, lit) == SubSeq(s, k + Len(lit), DigitsEnd(s, k + Len(lit)))

\* s, with the opacity token at k replaced by tok and the same digits, and
\* the text on either side of it as the first n rules leave that text.
AroundToken(s, k, lit, tok, n) ==
    ApplyRules(Before(s, k), 1, n) \o tok \o OpacityOf(s, k, lit)
        \o ApplyRules(After(s, DigitsEnd(s, k + Len(lit))), 1, n)

\* Every occurrence of lit in s is immediately followed by '/'.
AlwaysSuffixed(s, lit) ==
    \A k \in 1..Len(s) : StartsAt(s, k, lit) => StartsAt(s, k, lit \o "/")

HasPlaceholder(s) ==
    Contains(s, "BG_BLACK_TEMP") \/ Contains(s, "TEXT_WHITE_TEMP")

---------------------------------------------------------------------------
\* C1: a token bg-black/N in the input of invert_colors is bg-white/N, with
\* the same N, in its place in the output.
C1_BlackOpacityBecomesWhite ==
    Returned =>
        \A k \in 1..Len(main_content) :
            OpacityTokenAt(main_content, k, "bg-black/") =>
                inverted = AroundToken(main_content, k, "bg-black/",
                                       "bg-white/", NumRules)

---------------------------------------------------------------------------
(* The token-wise reference mapping of C2.                                 *)

Separators == {" ", "\""}

RefMap(tok) ==
    CASE tok = "bg-black" -> "bg-white"
      [] tok = "text-white" -> "text-black"
      [] tok = "border-white" -> "border-black"
      [] tok = "hover:bg-white" -> "hover:bg-black"
      [] tok = "hover:text-white" -> "hover:text-black"
      [] OTHER -> tok

\* s[k..] with every token mapped by RefMap and every separator kept; tok is
\* the token read so far.
RECURSIVE TokenWiseFrom(_, _, _)
TokenWiseFrom(s, k, tok) ==
    IF k > Len(s) THEN RefMap(tok)
    ELSE IF Char(s, k) \in Separators
         THEN RefMap(tok) \o Char(s, k) \o TokenWiseFrom(s, k + 1, "")
         ELSE TokenWiseFrom(s, k + 1, tok \o Char(s, k))

TokenWise(s) == TokenWiseFrom(s, 1, "")

\* The tokens of s[k..]; tok is the token read so far.
RECURSIVE TokensFrom(_, _, _)
TokensFrom(s, k, tok) ==
    IF k > Len(s) THEN {tok}
    ELSE IF Char(s, k) \in Separators
         THEN {tok} \cup TokensFrom(s, k + 1, "")
         ELSE TokensFrom(s, k + 1, tok \o Char(s, k))

Tokens(s) == TokensFrom(s, 1, "")

Listed ==
    {"bg-black", "text-white", "border-white", "hover:bg-white",
     "hover:text-white"}

\* A token no rule can touch: it contains no literal of the first five
\* patterns and no placeholder.
Inert(tok) ==
    \A lit \in {"bg-black", "text-white", "border-white", "hover:bg-white",
                "BG_BLACK_TEMP", "TEXT_WHITE_TEMP"} : ~Contains(tok, lit)

\* C2 as stated: on a document without '/', invert_colors is the token-wise
\* reference mapping, every token outside the five listed ones unchanged.
\* It is stated here for the documents that hold no placeholder, where it
\* fails all the same.
C2_TokenWiseOriginal ==
    (/\ Returned
     /\ ~Contains(main_content, "/")
     /\ ~HasPlaceholder(main_content)) =>
        inverted = TokenWise(main_content)

\* C2 (amended): on a document without '/' whose tokens are each one of the
\* five listed tokens or contain none of bg-black, text-white, border-white,
\* hover:bg-white, BG_BLACK_TEMP, TEXT_WHITE_TEMP, invert_colors is the
\* token-wise reference mapping, every separator unchanged.
C2_TokenWise ==
    (/\ Returned
     /\ ~Contains(main_content, "/")
     /\ \A tok \in Tokens(main_content) : tok \in Listed \/ Inert(tok)) =>
        inverted = TokenWise(main_content)

C2_Witness ==
    /\ Returned
    /\ main_content = "class=\"bg-black text-white border-white\""
    /\ inverted = "class=\"bg-white text-black border-black\""

---------------------------------------------------------------------------
\* C3: a token bg-white/N in the input of invert_colors is bg-black/N, with
\* the same N, in its place in the output, prefixed by hover: or not.
C3_WhiteOpacityBecomesBlack ==
    Returned =>
        \A k \in 1..Len(main_content) :
            OpacityTokenAt(main_content, k, "bg-white/") =>
                inverted = AroundToken(main_content, k, "bg-white/",
                                       "bg-black/", NumRules)

C3_Witness ==
    /\ Returned
    /\ main_content = "hover:bg-white/40 bg-white/5"
    /\ inverted = "hover:bg-black/40 bg-black/5"

---------------------------------------------------------------------------
\* C4: a text with no occurrence of bg-black, text-white, border-white,
\* hover:bg-white or bg-white/<digits> is returned unchanged.
C4_IdentityWithoutColorToken ==
    (/\ Returned
     /\ \A lit \in {"bg-black", "text-white", "border-white", "hover:bg-white"} :
            ~Contains(main_content, lit)
     /\ \A k \in 1..Len(main_content) :
            ~OpacityTokenAt(main_content, k, "bg-white/")) =>
        inverted = main_content

---------------------------------------------------------------------------
\* C5: invert_colors is neither an involution nor idempotent: when the script
\* is first started, the documents the file may hold include an x with
\* invert_colors(invert_colors(x)) # x and a y with
\* invert_colors(invert_colors(y)) # invert_colors(y), so that running the
\* script again on its own output is not safe.
C5_NotInvolutionNotIdempotent ==
    (run = 1 /\ pc = "argv") =>
        /\ \E x \in RerunDocs : invert_colors(invert_colors(x)) # x
        /\ \E y \in RerunDocs :
               invert_colors(invert_colors(y)) # invert_colors(y)

\* The second run has rewritten the file, and the file is neither what it was
\* before the first run nor what the first run left.
C5_Witness ==
    /\ run = 2
    /\ pc = "exit"
    /\ file # file0
    /\ file # main_content

---------------------------------------------------------------------------
\* C6: the driver reads, transforms in memory, overwrites and prints, in this
\* order: a missing argument or a file that cannot be opened or decoded ends
\* the run (no step follows) with the file unchanged and nothing printed;
\* the file is written only once the whole transformation is in memory; and
\* the confirmation is printed only once the file holds invert_colors of
\* what was read.
C6_DriverOrder ==
    /\ (pc = "fault" /\ fault \in {"IndexError", "FileNotFoundError",
                                   "PermissionError", "UnicodeDecodeError"})
          => (file = file0 /\ stdout = <<>> /\ ~ENABLED Next)
    /\ pc \in {"write", "print", "exit"} =>
          (main_content = file0 /\ Applied = NumRules /\ inverted = content)
    /\ file # file0 =>
          (pc \in {"write", "print", "exit"} \/ fault = "OSError")
    /\ stdout # <<>> =>
          (/\ pc = "exit"
           /\ file = inverted
           /\ stdout = <<"Inverted colors in " \o FilePath>>)

C6_Witness ==
    /\ pc = "exit"
    /\ Len(stdout) = 1
    /\ file # file0
    /\ file = invert_colors(main_content)

---------------------------------------------------------------------------
\* C7: the direct opacity rule runs after the restoration phase: every
\* bg-white/<digits> in the text the restoration phase leaves, original or
\* restored from BG_BLACK_TEMP/<digits>, is bg-black/<same digits> in the
\* output, and the output contains no bg-white/ followed by a digit.
C7_DirectRuleAfterRestoration ==
    /\ (pc = "sub" /\ Applied = 9) =>
          \A k \in 1..Len(content) :
              OpacityTokenAt(content, k, "bg-white/") =>
                  LET e == DigitsEnd(content, k + 9)
                  IN  SubSeq(ApplyRules(content, 10, NumRules), k, e)
                          = "bg-black/" \o OpacityOf(content, k, "bg-white/")
    /\ (pc = "sub" /\ Applied >= 10) =>
          \A k \in 1..Len(content) : ~OpacityTokenAt(content, k, "bg-white/")
    /\ Returned =>
          \A k \in 1..Len(inverted) : ~OpacityTokenAt(inverted, k, "bg-white/")

\* The restoration phase has just produced a bg-white/4 that the input did
\* not hold, and the rest of the pipeline turns it into bg-black/4.
C7_Witness ==
    /\ pc = "sub"
    /\ Applied = 9
    /\ Contains(content, "bg-white/4")
    /\ ~Contains(main_content, "bg-white")
    /\ Contains(ApplyRules(content, 10, NumRules), "bg-black/4")

---------------------------------------------------------------------------
\* C8: for an input that holds neither BG_BLACK_TEMP nor TEXT_WHITE_TEMP, no
\* placeholder is ever followed by '/', the with-suffix restoration rules
\* never match, and once the no-suffix restoration rules have run no
\* placeholder is left, in particular in the output.
C8_PlaceholdersNeverSuffixed ==
    /\ (pc = "sub" /\ ~HasPlaceholder(main_content)) =>
          /\ ~Contains(content, "BG_BLACK_TEMP/")
          /\ ~Contains(content, "TEXT_WHITE_TEMP/")
          /\ Applied \in {5, 7} => ~Matches(replacements[i], content)
          /\ Applied >= 7 => ~Contains(content, "BG_BLACK_TEMP")
          /\ Applied >= 9 => ~Contains(content, "TEXT_WHITE_TEMP")
    /\ (Returned /\ ~HasPlaceholder(main_content)) => ~HasPlaceholder(inverted)

\* Both placeholders are in the text when the restoration phase begins.
C8_Witness ==
    /\ pc = "sub"
    /\ Applied = 5
    /\ ~HasPlaceholder(main_content)
    /\ Contains(content, "BG_BLACK_TEMP")
    /\ Contains(content, "TEXT_WHITE_TEMP")

---------------------------------------------------------------------------
(* C9.                                                                     *)

\* From the end of the second rule on, every text-white left is followed by
\* '/': the last rule never matches, and the hover:text-white rule and the
\* bg-sam-red rule match only a text-white with a '/' suffix.
TextWhiteSuffixedFromRule2 ==
    /\ (pc = "sub" /\ Applied >= 2) =>
          /\ AlwaysSuffixed(content, "text-white")
          /\ Applied = 11 => ~Matches(replacements[i], content)
          /\ Applied \in {4, 10} =>
                \A k \in 1..Len(content) :
                    LET e == MatchEnd(replacements[i], content, k)
                    IN  e > 0 => StartsAt(content, e + 1, "/")
    /\ Returned => AlwaysSuffixed(inverted, "text-white")

SpellsTextWhite(s) ==
    \/ Contains(s, "bg-blackxt-white")
    \/ Contains(s, "BG_BLACK_TEMPxt-white")
    \/ Contains(s, "text-whiTEXT_WHITE_TEMP")

---------------------------------------------------------------------------
\* C10: a token text-white/N (one that does not share its first letters with
\* a preceding word ending in -white) is text-black/N after the
\* hover:text-white rule when 'hover:' precedes it, after the bg-sam-red rule
\* when 'bg-sam-red ' precedes it, and text-white/N at every other step and
\* in the output otherwise: it is never a placeholder.
TextTokenForm(pre, n) ==
    IF \/ EndsWith(pre, "hover:") /\ n >= 5
       \/ EndsWith(pre, "bg-sam-red ") /\ n >= 11
    THEN "text-black/"
    ELSE "text-white/"

=============================================================================
